---- MODULE Spec2Model ----
(***************************************************************************)
(* Model of tig/symbolic_execution.py: the Constraint record, the register *)
(* range synthesizer reg_constraints, the memory symbolizer                *)
(* make_static_memory_symbolic, the function executor exec_func and the    *)
(* block executor exec_bb.  The symbolic execution engine and the solver   *)
(* are collaborators: their answers are inputs drawn from small sets, and  *)
(* the simulation manager's stepping is modelled as the engine documents   *)
(* it (filter every active state, then step what was not filtered).        *)
(***************************************************************************)
EXTENDS Integers, Sequences, FiniteSets, TLC

VARIABLES
    pc,          \* position of the running call
    rec,         \* Constraint: the record (type, constraints, next_addr)
    state,       \* reg_constraints: state.regs, register name -> expression
    bb,          \* reg_constraints / exec_bb: the block, a sequence of instructions
    todo,        \* reg_constraints: registers of regs_written not yet visited
    out,         \* reg_constraints: the list out; exec_bb: the returned list
    memory,      \* make_static_memory_symbolic: state.memory, address -> byte
    sections,    \* loader.main_object.sections_map
    func,        \* exec_func: the Function descriptor and the binary it names
    techniques,  \* exec_func: exploration techniques installed on sm
    stashes,     \* exec_func / exec_bb: sm.stashes, name -> sequence of states
    steps,       \* exec_func: number of sm.step() calls explore has made
    result,      \* exec_func: the returned list
    input_constraints  \* exec_bb: the caller's constraints

vars == <<pc, rec, state, bb, todo, out, memory, sections, func, techniques,
          stashes, steps, result, input_constraints>>

----------------------------------------------------------------------------
(* Bit-vector values.  A value is <<hi, lo>>, standing for hi * 2^32 + lo,  *)
(* so that the ceiling 2^32 of reg_constraints is exact.                    *)

MaxLo == 2

Words == 0..MaxLo
HiWords == {0, 1}
Val == HiWords \X Words

Lt(x, y) == x[1] < y[1] \/ (x[1] = y[1] /\ x[2] < y[2])
Le(x, y) == x = y \/ Lt(x, y)

\* 2**32
Ceiling == <<1, 0>>

Zero == <<0, 0>>

(* claripy expressions: a concrete bit-vector BVV(v) or a symbol BVS(n).    *)
BVV(v) == [k |-> "bvv", v |-> v, n |-> ""]
BVS(name) == [k |-> "bvs", v |-> Zero, n |-> name]
NoExpr == [k |-> "none", v |-> Zero, n |-> ""]

BoolV(t) == [op |-> IF t THEN "true" ELSE "false", a |-> NoExpr, b |-> NoExpr]

Holds(op, x, y) ==
    CASE op = "eq" -> x = y
      [] op = "le" -> Le(x, y)
      [] op = "lt" -> Lt(x, y)

(* A comparison of two expressions.  claripy evaluates an operation whose   *)
(* operands are all concrete when it builds it, so such a comparison is the *)
(* boolean value itself; otherwise it stays a syntax tree.                  *)
MkPred(op, a, b) ==
    IF a.k = "bvv" /\ b.k = "bvv"
    THEN BoolV(Holds(op, a.v, b.v))
    ELSE [op |-> op, a |-> a, b |-> b]

\* b.is_true(): the predicate is syntactically the true value
is_true(p) == p.op = "true"

RECURSIVE FilterTrue(_)
FilterTrue(s) ==
    IF s = <<>> THEN <<>>
    ELSE IF is_true(Head(s)) THEN FilterTrue(Tail(s))
    ELSE <<Head(s)>> \o FilterTrue(Tail(s))

SeqsUpTo(S, n) == UNION {[1..k -> S] : k \in 0..n}

----------------------------------------------------------------------------
(* class Constraint                                                         *)

ConstraintType == {"Unknown", "BranchTrue", "BranchFalse", "DeadEnd", "Unconstrained"}

None == -1
NoRec == [type |-> "none", constraints |-> <<>>, next_addr |-> None]

MaxArg == 2
MaxConstraints == 3

\* predicates a caller may hand over: true, false, and two that are not constant
PredPool ==
    {BoolV(TRUE), BoolV(FALSE),
     MkPred("eq", BVS("x"), BVV(<<0, 1>>)),
     MkPred("le", BVV(Zero), BVS("y"))}

\* Constraint.__init__ with a single Bool: wrapped into a one-element list
ConstraintNewOne(t, b, next_addr) ==
    /\ pc = "new"
    /\ rec' = [type |-> t, constraints |-> FilterTrue(<<b>>), next_addr |-> next_addr]
    /\ pc' = "record"

\* Constraint.__init__ with a list
ConstraintNewList(t, l, next_addr) ==
    /\ pc = "new"
    /\ rec' = [type |-> t, constraints |-> FilterTrue(l), next_addr |-> next_addr]
    /\ pc' = "record"

AppendUnfiltered(cs, l) == cs \o l

\* Constraint.add_constraints: self.constraints += l
add_constraints(l) ==
    /\ pc = "record"
    /\ Len(rec.constraints) + Len(l) <= MaxConstraints
    /\ rec' = [rec EXCEPT !.constraints = AppendUnfiltered(rec.constraints, l)]
    /\ pc' = pc

IdleState == [regs |-> <<>>]
IdleStashes == [active |-> <<>>]
IdleFunc == [name |-> "none"]

RecFrame == UNCHANGED <<state, bb, todo, out, memory, sections, func, techniques,
                        stashes, steps, result, input_constraints>>

InitRec ==
    /\ pc = "new"
    /\ rec = NoRec
    /\ state = IdleState
    /\ bb = <<>>
    /\ todo = {}
    /\ out = <<>>
    /\ memory = <<>>
    /\ sections = <<>>
    /\ func = IdleFunc
    /\ techniques = {}
    /\ stashes = IdleStashes
    /\ steps = 0
    /\ result = <<>>
    /\ input_constraints = <<>>

NextRec ==
    \/ \E t \in ConstraintType, b \in PredPool, a \in {None, 0} :
           ConstraintNewOne(t, b, a) /\ RecFrame
    \/ \E t \in ConstraintType, l \in SeqsUpTo(PredPool, MaxArg), a \in {None, 0} :
           ConstraintNewList(t, l, a) /\ RecFrame
    \/ \E l \in SeqsUpTo(PredPool, MaxArg) : add_constraints(l) /\ RecFrame

SpecRec == InitRec /\ [][NextRec]_vars

\* C2: no Constraint record, after construction and after any sequence of
\* add_constraints calls, stores a predicate that is a syntactic tautology.
NoTautologyStored ==
    \A i \in 1..Len(rec.constraints) : ~is_true(rec.constraints[i])

----------------------------------------------------------------------------
(* reg_constraints                                                          *)

Regs == {"a0", "a1"}

MaxInstr == 1
MaxFeas == 2

(* What a register holds in the state: its expression e, and feas, the set  *)
(* of values the expression can take under the state's constraints.  A      *)
(* concrete register can take its one value; a symbolic one any non-empty   *)
(* set, or none when the state's constraints are unsatisfiable.             *)
ConcreteContents == {[e |-> BVV(v), feas |-> {v}] : v \in Val}
SymbolicContents(r) ==
    {[e |-> BVS(r), feas |-> S] : S \in {T \in SUBSET Val : Cardinality(T) <= MaxFeas}}
RegContents(r) == ConcreteContents \cup SymbolicContents(r)

\* a block: a sequence of instructions, each one the set i.regs_written
Blocks == SeqsUpTo(SUBSET Regs, MaxInstr)

\* regs_written |= set(i.regs_written), over the block
RegsWrittenIn(b) == UNION {b[i] : i \in 1..Len(b)}

MinOf(S) == CHOOSE x \in S : \A y \in S : Le(x, y)
MaxOf(S) == CHOOSE x \in S : \A y \in S : Le(y, x)

\* state.solver.min / max raise on an unsatisfiable state; a concrete
\* expression is answered without the solver
SolverCanAnswer(c) == c.feas # {}
SolverMayTimeOut(c) == c.e.k = "bvs"

BelowCeilingInclusive(max) == Le(max, Ceiling)

\* max < 2**32
BelowCeiling(max) == Lt(max, Ceiling)

\* reg < max
UpperBound(e, max) == MkPred("lt", e, BVV(max))

\* the predicates one loop iteration appends for a register holding c
RangePreds(c) ==
    LET min == MinOf(c.feas)
        max == MaxOf(c.feas)
    IN  IF min = max
        THEN <<MkPred("eq", c.e, BVV(min))>>
        ELSE <<MkPred("le", BVV(min), c.e)>>
             \o (IF BelowCeiling(max) THEN <<UpperBound(c.e, max)>> ELSE <<>>)

\* lines 98-102
RegCollect ==
    /\ pc = "rc_start"
    /\ todo' = RegsWrittenIn(bb)
    /\ out' = <<>>
    /\ pc' = "rc_loop"
    /\ UNCHANGED <<state, bb>>

\* lines 103-112, one iteration, the solver answering
RegLoop(reg) ==
    /\ pc = "rc_loop"
    /\ reg \in todo
    /\ SolverCanAnswer(state.regs[reg])
    /\ out' = out \o RangePreds(state.regs[reg])
    /\ todo' = todo \ {reg}
    /\ pc' = pc
    /\ UNCHANGED <<state, bb>>

\* line 105 raising: nothing in reg_constraints catches it
RegLoopRaise(reg) ==
    /\ pc = "rc_loop"
    /\ reg \in todo
    /\ ~SolverCanAnswer(state.regs[reg]) \/ SolverMayTimeOut(state.regs[reg])
    /\ pc' = "raised"
    /\ UNCHANGED <<state, bb, todo, out>>

\* line 113
RegReturn ==
    /\ pc = "rc_loop"
    /\ todo = {}
    /\ out' = FilterTrue(out)
    /\ pc' = "done"
    /\ UNCHANGED <<state, bb, todo>>

RegFrame == UNCHANGED <<rec, memory, sections, func, techniques, stashes, steps, result,
                        input_constraints>>

\* a register the block does not write is never read: it holds zero
Unwritten == [e |-> BVV(Zero), feas |-> {Zero}]

InitReg ==
    /\ pc = "rc_start"
    /\ bb \in Blocks
    /\ state \in {[regs |-> [a0 |-> c0, a1 |-> c1]] :
                     c0 \in IF "a0" \in RegsWrittenIn(bb) THEN RegContents("a0") ELSE {Unwritten},
                     c1 \in IF "a1" \in RegsWrittenIn(bb) THEN RegContents("a1") ELSE {Unwritten}}
    /\ rec = NoRec
    /\ todo = {}
    /\ out = <<>>
    /\ memory = <<>>
    /\ sections = <<>>
    /\ func = IdleFunc
    /\ techniques = {}
    /\ stashes = IdleStashes
    /\ steps = 0
    /\ result = <<>>
    /\ input_constraints = <<>>

NextReg ==
    \/ RegCollect /\ RegFrame
    \/ \E reg \in Regs : RegLoop(reg) /\ RegFrame
    \/ \E reg \in Regs : RegLoopRaise(reg) /\ RegFrame
    \/ RegReturn /\ RegFrame

SpecReg == InitReg /\ [][NextReg]_vars

\* whether value v of the register with expression e satisfies predicate p
Satisfies(p, e, v) ==
    CASE p.op = "true" -> TRUE
      [] p.op = "false" -> FALSE
      [] OTHER -> Holds(p.op, IF p.a = e THEN v ELSE p.a.v, IF p.b = e THEN v ELSE p.b.v)

Mentions(p, e) == p.a = e \/ p.b = e

OneRegister == Cardinality(RegsWrittenIn(bb)) = 1
TheRegister == state.regs[CHOOSE r \in Regs : r \in RegsWrittenIn(bb)]

\* register == v, register being whatever expression the register holds
EqSyntax(e, v) == [op |-> "eq", a |-> e, b |-> BVV(v)]

RangeCases(c) ==
    LET lo == MinOf(c.feas)
        hi == MaxOf(c.feas)
    IN  /\ (lo # hi /\ Lt(hi, Ceiling)) =>
               out = <<MkPred("le", BVV(lo), c.e), MkPred("lt", c.e, BVV(hi))>>
        /\ (lo # hi /\ ~Lt(hi, Ceiling)) =>
               /\ out = <<MkPred("le", BVV(lo), c.e)>>
               /\ \A i \in 1..Len(out) : out[i].op # "lt"

\* C3 (as claimed): for a block writing one register, min = max = v gives
\* exactly [register == v]; lo < hi < 2^32 gives exactly [lo <= register,
\* register < hi]; a maximum at or above 2^32 gives no upper-bound predicate.
RegOutputAsClaimed ==
    (pc = "done" /\ OneRegister) =>
        LET c == TheRegister
        IN  /\ MinOf(c.feas) = MaxOf(c.feas) => out = <<EqSyntax(c.e, MinOf(c.feas))>>
            /\ RangeCases(c)

\* C3 (amended): as claimed, except that a register holding the concrete value
\* v gives the empty list: register == v is then the true value and line 113
\* filters it.  A symbolic register pinned to v gives exactly [register == v].
RegOutputAmended ==
    (pc = "done" /\ OneRegister) =>
        LET c == TheRegister
        IN  /\ (c.e.k = "bvs" /\ MinOf(c.feas) = MaxOf(c.feas)) =>
                   out = <<EqSyntax(c.e, MinOf(c.feas))>>
            /\ c.e.k = "bvv" => out = <<>>
            /\ RangeCases(c)

\* a block writing one register that holds a concrete value: nothing is returned
RegOutputWitness ==
    /\ pc = "done"
    /\ OneRegister
    /\ TheRegister.e.k = "bvv"
    /\ MinOf(TheRegister.feas) = MaxOf(TheRegister.feas)
    /\ out = <<>>

\* C4: a raising min/max query does not escape reg_constraints.
RegNeverRaises == pc # "raised"

\* C10: every feasible value of a written register satisfies every predicate
\* emitted for that register.
RegPredsSound ==
    pc = "done" =>
        \A r \in RegsWrittenIn(bb) : \A v \in state.regs[r].feas :
            \A i \in 1..Len(out) :
                Mentions(out[i], state.regs[r].e) => Satisfies(out[i], state.regs[r].e, v)

----------------------------------------------------------------------------
(* make_static_memory_symbolic                                              *)

MaxAddr == 9

\* chunk_size
ChunkSize == 4

\* a section: its first and its last address (max_addr is the last address
\* of the region, not one past it)
Section(lo, hi) == [min_addr |-> lo, max_addr |-> hi]
Missing == [min_addr |-> None, max_addr |-> None]
Sections == {Section(lo, hi) : lo \in 0..MaxAddr, hi \in 0..MaxAddr} 

Disjoint(s, t) == s.max_addr < t.min_addr \/ t.max_addr < s.min_addr

\* sections_map: .data and .bss, either of which the binary may lack
SectionMaps ==
    {[data |-> d, bss |-> b] : d \in Sections \cup {Missing}, b \in Sections \cup {Missing}}

WellFormedMap(m) ==
    /\ m.data # Missing => m.data.min_addr <= m.data.max_addr
    /\ m.bss # Missing => m.bss.min_addr <= m.bss.max_addr
    /\ (m.data # Missing /\ m.bss # Missing) => Disjoint(m.data, m.bss)

MemAddrs == 0..(MaxAddr + ChunkSize - 1)

\* a byte of memory: what the loader put there, or byte idx of the symbol
\* named kind_<hex(at)>
LoadedByte == <<"loaded", 0, 0>>
SymByte(kind, at, idx) == <<kind, at, idx>>
InitialMemory == [x \in MemAddrs |-> LoadedByte]

\* state.memory.store(addr, BVS(f"{kind}_{hex(addr)}", chunk_size * 8))
Store(mem, kind, at) ==
    [x \in DOMAIN mem |->
        IF at <= x /\ x < at + ChunkSize THEN SymByte(kind, at, x - at) ELSE mem[x]]

\* range(min_addr, max_addr, chunk_size): whether at is still in the range
InRange(at, max_addr) == at < max_addr

\* for addr in range(min_addr, max_addr, chunk_size): store
RECURSIVE StoreRange(_, _, _, _)
StoreRange(mem, kind, at, max_addr) ==
    IF InRange(at, max_addr)
    THEN StoreRange(Store(mem, kind, at), kind, at + ChunkSize, max_addr)
    ELSE mem

\* lines 166-175: the .data loop, then the .bss loop
Symbolized(mem, secs) ==
    StoreRange(StoreRange(mem, "data", secs.data.min_addr, secs.data.max_addr),
               "bss", secs.bss.min_addr, secs.bss.max_addr)

\* sections_map[".data"], sections_map[".bss"]: a KeyError when one is absent
HasSections(secs) == secs.data # Missing /\ secs.bss # Missing

\* lines 162-163 raising
MemLookupFails ==
    /\ pc = "mem_start"
    /\ ~HasSections(sections)
    /\ pc' = "raised"
    /\ UNCHANGED <<memory, sections>>

\* lines 166-177: .data first, then .bss
make_static_memory_symbolic ==
    /\ pc = "mem_start"
    /\ HasSections(sections)
    /\ memory' = Symbolized(memory, sections)
    /\ pc' = "done"
    /\ UNCHANGED sections

MemFrame == UNCHANGED <<rec, state, bb, todo, out, func, techniques, stashes, steps,
                        result, input_constraints>>

InitMem ==
    /\ pc = "mem_start"
    /\ sections \in SectionMaps
    /\ WellFormedMap(sections)
    /\ memory = InitialMemory
    /\ rec = NoRec
    /\ state = IdleState
    /\ bb = <<>>
    /\ todo = {}
    /\ out = <<>>
    /\ func = IdleFunc
    /\ techniques = {}
    /\ stashes = IdleStashes
    /\ steps = 0
    /\ result = <<>>
    /\ input_constraints = <<>>

NextMem ==
    \/ MemLookupFails /\ MemFrame
    \/ make_static_memory_symbolic /\ MemFrame

SpecMem == InitMem /\ [][NextMem]_vars

\* address at holds the whole symbol kind_<hex(at)>
HoldsSymbol(kind, at) ==
    \A i \in 0..(ChunkSize - 1) : memory[at + i] = SymByte(kind, at, i)

ChunkAligned(at, sec) == (at - sec.min_addr) % ChunkSize = 0

\* C9: after symbolizing, every chunk-aligned address of .data and of .bss,
\* up to and including the region's last address, holds the symbol named
\* after that address.
EveryAlignedAddressSymbolic ==
    pc = "done" =>
        /\ \A at \in sections.data.min_addr .. sections.data.max_addr :
               ChunkAligned(at, sections.data) => HoldsSymbol("data", at)
        /\ \A at \in sections.bss.min_addr .. sections.bss.max_addr :
               ChunkAligned(at, sections.bss) => HoldsSymbol("bss", at)

----------------------------------------------------------------------------
(* Execution states and the stashes of a simulation manager                 *)

\* a state: its address, its solver constraints, and the loop bookkeeping
\* LoopSeer keeps on it (back-edge trips of the current loop, cut or not)
SimState(addr, cons) == [addr |-> addr, cons |-> cons, trips |-> 0, cut |-> FALSE]

EmptyStashes ==
    [active |-> <<>>, found |-> <<>>, deadended |-> <<>>, spinning |-> <<>>,
     unconstrained |-> <<>>]

----------------------------------------------------------------------------
(* exec_bb                                                                  *)

MaxActive == 3

BBAddrs == {0, 4}

\* the path predicate the engine adds to the i-th successor of a step
BranchPred(i) == MkPred("eq", BVS("cond"), BVV(<<0, i>>))

\* lines 241-243: blank_state at the block's start, every input constraint added
BBSeed ==
    /\ pc = "bb_start"
    /\ state' = SimState(bb.start_vaddr, input_constraints)
    /\ pc' = "bb_step"
    /\ UNCHANGED <<bb, input_constraints, stashes, out>>

\* lines 249-251: sm.step() with save_unconstrained; the engine answers with
\* n successors, or with a dead end, or with one unconstrained successor
BBStep(n, kind, target) ==
    /\ pc = "bb_step"
    /\ stashes' =
           [EmptyStashes EXCEPT
               !.active = [i \in 1..n |->
                              SimState(target, state.cons \o <<BranchPred(i - 1)>>)],
               !.deadended = IF n = 0 /\ kind = "deadended" THEN <<state>> ELSE <<>>,
               !.unconstrained = IF n = 0 /\ kind = "unconstrained"
                                 THEN <<SimState(None, state.cons)>> ELSE <<>>]
    /\ pc' = "bb_return"
    /\ UNCHANGED <<bb, input_constraints, state, out>>

\* lines 253-292: the classification is a string literal; the function
\* returns the empty list
BBReturn ==
    /\ pc = "bb_return"
    /\ out' = <<>>
    /\ pc' = "done"
    /\ UNCHANGED <<bb, input_constraints, state, stashes>>

BBFrame == UNCHANGED <<rec, todo, memory, sections, func, techniques, steps, result>>

InitBB ==
    /\ pc = "bb_start"
    /\ bb \in {[start_vaddr |-> a] : a \in BBAddrs}
    /\ input_constraints \in SeqsUpTo(PredPool, MaxArg)
    /\ state = IdleState
    /\ stashes = EmptyStashes
    /\ out = <<>>
    /\ rec = NoRec
    /\ todo = {}
    /\ memory = <<>>
    /\ sections = <<>>
    /\ func = IdleFunc
    /\ techniques = {}
    /\ steps = 0
    /\ result = <<>>

NextBB ==
    \/ BBSeed /\ BBFrame
    \/ \E n \in 0..MaxActive, kind \in {"deadended", "unconstrained"}, target \in BBAddrs :
           BBStep(n, kind, target) /\ BBFrame
    \/ BBReturn /\ BBFrame

SpecBB == InitBB /\ [][NextBB]_vars

ActiveKind(i) ==
    IF Len(stashes.active) = 2
    THEN (IF i = 1 THEN "BranchTrue" ELSE "BranchFalse")
    ELSE "Unknown"

\* C1: exec_bb returns one record per state of the active group, tagged
\* BranchTrue then BranchFalse when the group holds exactly two states and
\* Unknown otherwise.
ActiveGroupClassified ==
    pc = "done" =>
        /\ Len(out) >= Len(stashes.active)
        /\ \A i \in 1..Len(stashes.active) : out[i].type = ActiveKind(i)

----------------------------------------------------------------------------
(* exec_func                                                                *)

MaxIfs == 7
MaxSteps == 40

\* LoopSeer(cfg=cfg, bound=5)
LoopBound == 5

\* explore(..., num_find=100)
NumFind == 100

(* The functions explored.  A function is a chain of nIf if-then blocks, an  *)
(* optional loop and a return block:                                         *)
(*   If_i   at 16*i      branches to the next block (taken) or to Then_i     *)
(*   Then_i at 16*i + 8  joins the next block, halts, jumps through a free   *)
(*                       pointer, or is infeasible (arm)                     *)
(*   Header at TailAddr    while: branches to Body or to Exit; Body jumps back *)
(*                       dowhile: branches back to itself or to Exit         *)
(*   Exit                the return block                                    *)
(* rets says which addresses the caller lists in func.return_addrs, and      *)
(* inCfg whether the recovered control-flow graph knows func.name.           *)
Arms == {"join", "halt", "indirect", "unsat"}
Loops == {"none", "while", "dowhile"}
RetSels == {"exit", "none", "entry", "then"}

Functions ==
    {[name |-> "f", nIf |-> n, arm |-> a, loop |-> l, rets |-> r, inCfg |-> c] :
        n \in 0..MaxIfs, a \in Arms, l \in Loops, r \in RetSels, c \in BOOLEAN}

IfAddr(i) == 16 * i
ThenAddr(i) == 16 * i + 8
TailAddr(f) == 16 * (f.nIf + 1)
Header(f) == TailAddr(f)
Body(f) == TailAddr(f) + 8
Exit(f) == IF f.loop = "none" THEN TailAddr(f) ELSE TailAddr(f) + 16
NextBlock(f, i) == IF i < f.nIf THEN IfAddr(i + 1) ELSE TailAddr(f)

\* func.entry_point
EntryPoint(f) == IF f.nIf > 0 THEN IfAddr(1) ELSE TailAddr(f)

\* func.return_addrs
ReturnAddrs(f) ==
    CASE f.rets = "exit" -> {Exit(f)}
      [] f.rets = "none" -> {}
      [] f.rets = "entry" -> {EntryPoint(f), Exit(f)}
      [] f.rets = "then" -> {ThenAddr(1), Exit(f)}

IsIf(f, addr) == addr % 16 = 0 /\ addr >= 16 /\ addr <= 16 * f.nIf
IsThen(f, addr) == addr % 16 = 8 /\ addr >= 16 /\ addr < TailAddr(f)
IsHeader(f, addr) == f.loop # "none" /\ addr = Header(f)
IsBody(f, addr) == f.loop = "while" /\ addr = Body(f)

\* the edge from -> to is a continue edge of the loop
IsBackEdge(f, from, to) ==
    /\ IsHeader(f, to)
    /\ \/ f.loop = "while" /\ from = Body(f)
       \/ f.loop = "dowhile" /\ from = Header(f)

\* the path predicate of leaving the block at addr in direction dir
PathPred(addr, dir) == <<addr, dir>>

ExceedsLoose(trips) == trips > LoopBound + 1

\* LoopSeer: counts > self.bound
Exceeds(trips) == trips > LoopBound

\* LoopSeer.successors: the loop bookkeeping of a successor of s at address to
Seen(f, s, to, cons) ==
    IF IsBackEdge(f, s.addr, to)
    THEN [addr |-> to, cons |-> cons, trips |-> s.trips + 1, cut |-> Exceeds(s.trips + 1)]
    ELSE IF IsHeader(f, to)
    THEN [addr |-> to, cons |-> cons, trips |-> 0, cut |-> FALSE]
    ELSE [addr |-> to, cons |-> cons, trips |-> s.trips, cut |-> s.cut]

Branch(f, s, to, dir) == Seen(f, s, to, s.cons \o <<PathPred(s.addr, dir)>>)
Jump(f, s, to) == Seen(f, s, to, s.cons)

\* the satisfiable successors with a concrete address the engine gives for s
\* (unsatisfiable and unconstrained ones are dropped by the manager)
Successors(f, s) ==
    CASE IsIf(f, s.addr) ->
             <<Branch(f, s, NextBlock(f, s.addr \div 16), 1)>>
             \o (IF f.arm = "unsat" THEN <<>> ELSE <<Branch(f, s, s.addr + 8, 0)>>)
      [] IsThen(f, s.addr) ->
             IF f.arm = "join" THEN <<Jump(f, s, NextBlock(f, s.addr \div 16))>> ELSE <<>>
      [] IsHeader(f, s.addr) ->
             <<Branch(f, s, IF f.loop = "while" THEN Body(f) ELSE Header(f), 1),
               Branch(f, s, Exit(f), 0)>>
      [] IsBody(f, s.addr) -> <<Jump(f, s, Header(f))>>
      [] OTHER -> <<>>

\* a step that produced no successor of any kind: the state has dead-ended.
\* The return block and an indirect jump do produce one, an unconstrained one.
DeadEnds(f, s) == IsThen(f, s.addr) /\ f.arm = "halt"

FindableAnywhere(f, s) == TRUE

\* Explorer: find=func.return_addrs
Findable(f, s) == s.addr \in ReturnAddrs(f)

\* the stash the filters send s to before it is stepped: Explorer's first,
\* then LoopSeer's
Goto(f, s) ==
    IF Findable(f, s) THEN "found"
    ELSE IF s.cut THEN "spinning"
    ELSE "step"

\* the concatenation of a sequence of sequences, by halves
RECURSIVE Flatten(_)
Flatten(ss) ==
    IF ss = <<>> THEN <<>>
    ELSE IF Len(ss) = 1 THEN ss[1]
    ELSE LET h == Len(ss) \div 2
         IN  Flatten(SubSeq(ss, 1, h)) \o Flatten(SubSeq(ss, h + 1, Len(ss)))

\* one sm.step() of the active stash
Stepped(f, st) ==
    LET toFound == SelectSeq(st.active, LAMBDA s : Goto(f, s) = "found")
        toSpin == SelectSeq(st.active, LAMBDA s : Goto(f, s) = "spinning")
        toStep == SelectSeq(st.active, LAMBDA s : Goto(f, s) = "step")
    IN  [st EXCEPT
            !.found = @ \o toFound,
            !.spinning = @ \o toSpin,
            !.deadended = @ \o SelectSeq(toStep, LAMBDA s : DeadEnds(f, s)),
            !.active = Flatten([i \in 1..Len(toStep) |-> Successors(f, toStep[i])])]

CompleteNever(st) == FALSE

\* Explorer.complete: len(found) >= num_find
Complete(st) == Len(st.found) >= NumFind

LookupAlwaysFinds(f) == TRUE

\* cfg.kb.functions.function(name=func.name) is not None
LookupFinds(f) == f.inCfg

\* lines 190-191 when a section is absent
EFSeedFails ==
    /\ pc = "ef_start"
    /\ ~HasSections(sections)
    /\ pc' = "raised"
    /\ UNCHANGED <<func, sections, memory, techniques, stashes, steps, result>>

\* lines 190-206: the seed state, its static memory made symbolic, the manager
EFSeed ==
    /\ pc = "ef_start"
    /\ HasSections(sections)
    /\ memory' = Symbolized(memory, sections)
    /\ stashes' = [EmptyStashes EXCEPT !.active = <<SimState(EntryPoint(func), <<>>)>>]
    /\ pc' = "ef_cfg"
    /\ UNCHANGED <<func, sections, techniques, steps, result>>

\* lines 210-214: the function is not in the graph
EFLookupFails ==
    /\ pc = "ef_cfg"
    /\ ~LookupFinds(func)
    /\ result' = <<>>
    /\ pc' = "done"
    /\ UNCHANGED <<func, sections, memory, techniques, stashes, steps>>

\* lines 210-216: the function is found, the techniques installed
EFTechniques ==
    /\ pc = "ef_cfg"
    /\ LookupFinds(func)
    /\ techniques' = {"LoopSeer", "StashMonitor"}
    /\ pc' = "explore"
    /\ UNCHANGED <<func, sections, memory, stashes, steps, result>>

\* lines 218-222: one round of explore's loop
ExploreStep ==
    /\ pc = "explore"
    /\ ~Complete(stashes)
    /\ stashes.active # <<>>
    /\ steps < MaxSteps
    /\ stashes' = Stepped(func, stashes)
    /\ steps' = steps + 1
    /\ pc' = pc
    /\ UNCHANGED <<func, sections, memory, techniques, result>>

ConstraintsOf(ss) == [i \in 1..Len(ss) |-> ss[i].cons]

\* line 224, once explore has returned
EFReturn ==
    /\ pc = "explore"
    /\ Complete(stashes) \/ stashes.active = <<>>
    /\ result' = ConstraintsOf(stashes.found)
    /\ pc' = "done"
    /\ UNCHANGED <<func, sections, memory, techniques, stashes, steps>>

FuncFrame == UNCHANGED <<rec, state, bb, todo, out, input_constraints>>

FuncSectionMaps ==
    {[data |-> Section(0, 3), bss |-> Section(4, 9)],
     [data |-> Section(0, 3), bss |-> Missing]}

InitFunc ==
    /\ pc = "ef_start"
    /\ func \in Functions
    /\ sections \in FuncSectionMaps
    /\ memory = InitialMemory
    /\ techniques = {}
    /\ stashes = EmptyStashes
    /\ steps = 0
    /\ result = <<>>
    /\ rec = NoRec
    /\ state = IdleState
    /\ bb = <<>>
    /\ todo = {}
    /\ out = <<>>
    /\ input_constraints = <<>>

NextFunc ==
    \/ EFSeedFails /\ FuncFrame
    \/ EFSeed /\ FuncFrame
    \/ EFLookupFails /\ FuncFrame
    \/ EFTechniques /\ FuncFrame
    \/ ExploreStep /\ FuncFrame
    \/ EFReturn /\ FuncFrame

SpecFunc == InitFunc /\ [][NextFunc]_vars

Range(ss) == {ss[i] : i \in 1..Len(ss)}

\* C5: when the graph does not know func.name, exec_func returns the empty
\* list, raises nothing, installs no technique and makes no exploration step.
AbsentFunctionEmptyResult ==
    (~func.inCfg /\ HasSections(sections)) =>
        /\ pc \in {"ef_start", "ef_cfg", "done"}
        /\ steps = 0
        /\ techniques = {}
        /\ stashes.found = <<>>
        /\ pc = "done" => result = <<>>

AbsentFunctionWitness ==
    /\ pc = "done"
    /\ ~func.inCfg
    /\ result = <<>>
    /\ Len(stashes.active) = 1

MaxLoopIfs == 1

\* the functions with a single back-edge loop
InitLoop ==
    /\ InitFunc
    /\ func.loop # "none"
    /\ func.nIf <= MaxLoopIfs

\* exec_func runs to completion: no step of it waits on anything
FairSpecLoop == InitLoop /\ [][NextFunc]_vars /\ WF_vars(NextFunc)

ResultWithinCap == Len(result) <= NumFind

\* C7 (amended): explore makes no further step once the found group holds 100
\* states or more, and the result is the found group's constraints: the found
\* group grows only in a step that began with fewer than 100 found states, so
\* the result exceeds 100 by less than the number of states active in that step.
FoundGrowsOnlyBelowCap ==
    [][/\ stashes'.found # stashes.found =>
              /\ Len(stashes.found) < NumFind
              /\ Len(stashes'.found) < NumFind + Len(stashes.active)
       /\ (pc = "explore" /\ pc' = "done") =>
              /\ result' = ConstraintsOf(stashes.found)
              /\ stashes' = stashes]_vars

FoundBeyondCapWitness ==
    /\ pc = "done"
    /\ Len(result) > NumFind
    /\ stashes.active # <<>>

\* C8: a state enters the found group only from the active group and only at
\* one of func.return_addrs; the result is exactly the found states'
\* constraint lists, and no dead-ended or loop-retired state contributes one.
FoundOnlyAtReturnAddrs ==
    /\ [](/\ \A i \in 1..Len(stashes.found) : stashes.found[i].addr \in ReturnAddrs(func)
          /\ (pc = "done" /\ func.inCfg) =>
                 /\ Len(result) = Len(stashes.found)
                 /\ \A i \in 1..Len(result) : result[i] = stashes.found[i].cons
                 /\ \A i \in 1..Len(stashes.deadended) :
                        stashes.deadended[i].cons \notin Range(result)
                 /\ \A i \in 1..Len(stashes.spinning) :
                        stashes.spinning[i].cons \notin Range(result))
    /\ [][\A i \in 1..Len(stashes'.found) :
            \/ i <= Len(stashes.found) /\ stashes'.found[i] = stashes.found[i]
            \/ /\ stashes'.found[i] \in Range(stashes.active)
               /\ stashes'.found[i].addr \in ReturnAddrs(func)]_vars

FoundOnlyAtReturnWitness ==
    /\ pc = "done"
    /\ result # <<>>
    /\ stashes.deadended # <<>>
    /\ stashes.spinning # <<>>

====
